---- MODULE Spec2Model ----
(***************************************************************************)
(* ComPulse (tartanhack25): a company name typed by the user is resolved   *)
(* against several datasets by fuzzy matching and the results are shown in *)
(* a Tk notebook.  The module models                                        *)
(*   - the dataset resolvers (utils.get_ticker, get_sec.get_ticker_or_cik,  *)
(*     h1b.process_and_match_companies, layoff.layoffs,                     *)
(*     jobsearch.get_filtered_company_jobs),                                *)
(*   - the registry cache of get_sec.py (load_cache, save_cache,            *)
(*     get_company_data),                                                   *)
(*   - the query handler StockApp.fetch_all_data with its fetch thread and  *)
(*     the Tk main loop that runs the callbacks queued with root.after.     *)
(*   - the calls of external sources: the tenacity wrapper of              *)
(*     jobsearch.get_company_jobs and the direct call sites,                *)
(*   - dispute.CourtListenerAPI._normalize_company_name.                    *)
(***************************************************************************)
EXTENDS Integers, Sequences, FiniteSets, TLC

VARIABLES
    \* ---- dataset resolvers ----
    rows,       \* the dataset's name column, one entry per row, in file order
    score,      \* fuzzy score of the query against each candidate name
    rcall,      \* the resolver that was applied ("" before the call)
    rout,       \* what the resolver returned
    \* ---- registry cache (get_sec.py) ----
    now,        \* datetime.now(), in hours
    ticks,      \* number of clock advances so far
    file,       \* company_tickers_cache.json
    cpc,        \* per caller of get_company_data: position in the code
    cloc,       \* per caller: local variables and the return value
    \* ---- StockApp ----
    tpc,        \* per query: position of its fetch thread
    tloc,       \* per query: the fetch thread's local variables
    started,    \* number of fetch threads started so far
    afterq,     \* callbacks queued with root.after(0, ...), oldest first
    loading,    \* loading_label shows "Loading..."
    search_enabled,     \* state of search_button
    export_enabled,     \* state of export_button
    tabs,       \* per notebook tab: what it shows
    current_hist_data,
    current_symbol,
    handled,    \* how the last fetch_all_data handler ended
    max_threads,        \* fetch threads this run may start
    varying,    \* the sources that may fail or come back empty in this run
    off_main,   \* widget operations run so far on a fetch thread
    exported,   \* what export_data wrote last: <<symbol's query, data's query>>
    \* ---- calls of external sources ----
    site,       \* the call site that is running ("" before the call)
    rpc,        \* its position
    attempt_number,     \* tenacity's retry_state.attempt_number
    outcome,    \* retry_state.outcome: how the last attempt ended
    hist,       \* how each attempt so far ended, oldest first
    slept,      \* the sleeps made between attempts, oldest first
    rexc,       \* the exception that left the call site's function
    rret,       \* the value the call site's function returned
    \* ---- name normalization (dispute.py) ----
    company_name,       \* the raw name passed to search_cases
    npc,        \* position in search_cases
    base_name,  \* base_name of _normalize_company_name
    name_variants,      \* what _normalize_company_name returned
    nraised,    \* _normalize_company_name raised
    searched,   \* the search request was sent
    \* ---- litigation analysis (dispute.py) ----
    dpc,        \* position in get_info
    dcompany,   \* the company get_info was called for
    analysed,   \* number of case types analyze_company has gone through
    answered,   \* the status search_cases got for each of them
    case_summary,       \* results["case_summary"], by position in CASE_TYPES
    results,    \* red_flags and risk_assessment of results
    report,     \* what get_report returned
    reports_generated,  \* how often a report was generated
    summarize_arg       \* the argument summarize_dispute was called with

resolveVars == <<rows, score, rcall, rout>>
cacheVars == <<now, ticks, file, cpc, cloc>>
appVars == <<tpc, tloc, started, afterq, loading, search_enabled,
             export_enabled, tabs, current_hist_data, current_symbol, handled,
             max_threads, varying, off_main, exported>>
disputeVars == <<dpc, dcompany, analysed, answered, case_summary, results, report,
                 reports_generated, summarize_arg>>
normVars == <<company_name, npc, base_name, name_variants, nraised, searched>>
retryVars == <<site, rpc, attempt_number, outcome, hist, slept, rexc, rret>>
vars == <<rows, score, rcall, rout, now, ticks, file, cpc, cloc,
          tpc, tloc, started, afterq, loading, search_enabled,
          export_enabled, tabs, current_hist_data, current_symbol, handled,
          max_threads, varying, off_main, exported,
          site, rpc, attempt_number, outcome, hist, slept, rexc, rret,
          company_name, npc, base_name, name_variants, nraised, searched,
          dpc, dcompany, analysed, answered, case_summary, results, report,
          reports_generated, summarize_arg>>

(***************************************************************************)
(* Bounds                                                                   *)
(***************************************************************************)
MaxRows == 3

\* Candidate names, as sequences of characters: "a", "al" (contains "a"), "z"
Names == {<<"a">>, <<"a", "l">>, <<"z">>}

\* Scores the fuzzy matcher may give: each threshold of the program, one
\* below it, and a pair within / beyond ten points of each other
ScoreValues == {49, 50, 69, 70, 79, 80, 94, 95}


(***************************************************************************)
(* Program constants                                                        *)
(***************************************************************************)
\* get_ticker_or_cik: "if score > 70"
SEC_THRESHOLD == 70
\* process_and_match_companies: "match[1] >= 50"
H1B_THRESHOLD == 50
\* layoffs: "match[1] >= 80"
LAYOFF_THRESHOLD == 80
\* get_filtered_company_jobs: match_threshold=80
JOBS_THRESHOLD == 80
\* fuzzywuzzy's process.extract keeps the best `limit` candidates (default)
EXTRACT_LIMIT == 5

(***************************************************************************)
(* Helpers: pandas and fuzzywuzzy as the resolvers use them                 *)
(***************************************************************************)
Min(a, b) == IF a < b THEN a ELSE b

\* Series.unique(): the distinct values in order of first appearance
RECURSIVE Unique(_)
Unique(s) ==
    IF s = <<>> THEN <<>>
    ELSE LET u == Unique(SubSeq(s, 1, Len(s) - 1))
             x == s[Len(s)]
         IN  IF \E i \in 1..Len(u) : u[i] = x THEN u ELSE Append(u, x)

\* s without its i-th element
RemoveAt(s, i) == SubSeq(s, 1, i - 1) \o SubSeq(s, i + 1, Len(s))

\* index of the first candidate with the highest score (Python's max / a
\* stable descending sort: ties keep first-seen order)
FirstBest(names, sc) ==
    CHOOSE i \in 1..Len(names) :
        /\ \A j \in 1..Len(names) : sc[names[j]] <= sc[names[i]]
        /\ \A j \in 1..(i - 1) : sc[names[j]] < sc[names[i]]

\* all candidates as <<name, score>>, best first
RECURSIVE SortedMatches(_, _)
SortedMatches(names, sc) ==
    IF names = <<>> THEN <<>>
    ELSE LET i == FirstBest(names, sc)
         IN  <<<<names[i], sc[names[i]]>>>> \o SortedMatches(RemoveAt(names, i), sc)

\* process.extract(query, choices): the EXTRACT_LIMIT best <<name, score>>
Extract(names, sc) ==
    LET all == SortedMatches(names, sc)
    IN  SubSeq(all, 1, Min(Len(all), EXTRACT_LIMIT))

\* process.extractOne(query, choices): the best <<name, score>>
ExtractOne(names, sc) ==
    LET i == FirstBest(names, sc) IN <<names[i], sc[names[i]]>>

\* the (1-based) positions of the rows that satisfy P, in order
RECURSIVE SelectIdx(_, _, _)
SelectIdx(s, P(_), k) ==
    IF k > Len(s) THEN <<>>
    ELSE (IF P(s[k]) THEN <<k>> ELSE <<>>) \o SelectIdx(s, P, k + 1)

\* str.contains(needle): needle occurs in hay (names are lower case, so
\* case=False changes nothing here)
Contains(hay, needle) ==
    \E i \in 1..(Len(hay) - Len(needle) + 1) :
        SubSeq(hay, i, i + Len(needle) - 1) = needle

\* What a resolver call produced.  status: "value" (a result was returned),
\* "none" (None / (None, None) was returned), "raise" (the exception exc left
\* the function).  matched: the accepted candidate names; ident: the
\* identifier returned (a row number of the registry; 0 = none); rowsOut: the
\* row numbers of the returned DataFrame.
Value(matched, ident, rowsOut) ==
    [status |-> "value", matched |-> matched, ident |-> ident, rowsOut |-> rowsOut,
     exc |-> ""]
NoneOut ==
    [status |-> "none", matched |-> <<>>, ident |-> 0, rowsOut |-> <<>>, exc |-> ""]
RaiseOut(exc) ==
    [status |-> "raise", matched |-> <<>>, ident |-> 0, rowsOut |-> <<>>, exc |-> exc]
NotCalled ==
    [status |-> "", matched |-> <<>>, ident |-> 0, rowsOut |-> <<>>, exc |-> ""]

(***************************************************************************)
(* The resolvers                                                            *)
(***************************************************************************)
\* utils.get_ticker: the ticker (row number) of the first row whose title is
\* the best match; no score is looked at
get_ticker(df, sc) ==
    LET company_names == Unique(df)
        matches == Extract(company_names, sc)
    IN  IF matches = <<>> THEN NoneOut
        ELSE LET best_match == matches[1][1]
                 matched_row == SelectIdx(df, LAMBDA t : t = best_match, 1)
             IN  IF matched_row # <<>>
                 THEN Value(<<best_match>>, matched_row[1], <<>>)
                 ELSE RaiseOut("UnboundLocalError")  \* return ticker, never assigned

\* get_sec.get_ticker_or_cik on the registry get_company_data returned
\* (<<>>: nothing could be loaded).  The dict built from the registry keeps,
\* for a title that occurs twice, the cik of its last row.
get_ticker_or_cik(company_data, sc) ==
    IF company_data = <<>> THEN NoneOut
    ELSE LET keys == Unique(company_data)
             m == ExtractOne(keys, sc)
             hits == SelectIdx(company_data, LAMBDA t : t = m[1], 1)
         IN  IF m[2] > SEC_THRESHOLD
             THEN Value(<<m[1]>>, hits[Len(hits)], <<>>)
             ELSE NoneOut

\* h1b.process_and_match_companies
process_and_match_companies(df, sc) ==
    LET unique_names == Unique(df)
        matches == Extract(unique_names, sc)
        keep == SelectIdx(matches, LAMBDA m : m[2] >= H1B_THRESHOLD, 1)
        matched_names == [k \in 1..Len(keep) |-> matches[keep[k]][1]]
    IN  IF matched_names = <<>> THEN NoneOut
        ELSE Value(matched_names, 0,
                   SelectIdx(df, LAMBDA t : \E k \in 1..Len(matched_names) :
                                                matched_names[k] = t, 1))

\* layoff.layoffs
layoffs(df, sc) ==
    LET unique_names == Unique(df)
        matches == Extract(unique_names, sc)
        keep == SelectIdx(matches, LAMBDA m : m[2] >= LAYOFF_THRESHOLD, 1)
        matched_names == [k \in 1..Len(keep) |-> matches[keep[k]][1]]
    IN  IF matches = <<>> THEN NoneOut
        ELSE IF matched_names = <<>> THEN RaiseOut("IndexError")  \* matched_names[0]
        ELSE Value(<<matched_names[1]>>, 0,
                   SelectIdx(df, LAMBDA t : t = matched_names[1], 1))

\* jobsearch.get_filtered_company_jobs on the postings scrape_jobs returned
\* (scrape_ok = FALSE: scrape_jobs raised)
get_filtered_company_jobs(jobs, sc, scrape_ok, match_threshold) ==
    IF ~scrape_ok THEN RaiseOut("scrape_jobs")
    ELSE IF jobs = <<>> THEN NoneOut
    ELSE LET unique_companies == Unique(jobs)
             matches == Extract(unique_companies, sc)
         IN  IF matches = <<>> THEN NoneOut
             ELSE LET best_match == matches[1][1]
                      sco == matches[1][2]
                      filtered == SelectIdx(jobs, LAMBDA t : Contains(t, best_match), 1)
                  IN  IF sco < match_threshold THEN NoneOut
                      ELSE IF filtered = <<>> THEN NoneOut
                      ELSE Value(<<best_match>>, 0, filtered)

(***************************************************************************)
(* The registry cache of get_sec.py.  Time is counted in hours.             *)
(***************************************************************************)
\* CACHE_DURATION = timedelta(days=7), in hours
CACHE_DURATION == 168

\* clock advances between two steps: an hour, an hour less than seven days,
\* eight days
TickSteps == {1, 167, 192}
MaxTicks == 2

\* json.dump reaches the file in this many pieces (buffer flushes)
NumChunks == 2

\* the threads that may be inside get_company_data at the same time
Callers == {"q1", "q2"}

\* registries the SEC may answer with; "{}" is the empty registry
Registries == {"{}", "A", "B"}
None == "None"

\* the pieces of the serialization of {"timestamp": ts, "companies": p}: the
\* timestamp comes first, the rest continues the companies
\* datetime.isoformat() and datetime.fromisoformat(): <<day, hour of the day>>
isoformat(t) == <<t \div 24, t % 24>>
fromisoformat(str) == str[1] * 24 + str[2]

Hole == <<"hole", <<0, 0>>, "">>
Chunk(ts, p, k) == IF k = 1 THEN <<"head", isoformat(ts), p>>
                   ELSE <<"tail", <<k, 0>>, p>>
Absent == [exists |-> FALSE, content |-> <<>>]

\* json.load of the file's content: a complete serialization of one entry,
\* or a JSONDecodeError
Parse(content) ==
    IF /\ Len(content) = NumChunks
       /\ content[1][1] = "head"
       /\ \A k \in 2..NumChunks : content[k] = <<"tail", <<k, 0>>, content[1][3]>>
    THEN [ok |-> TRUE, timestamp |-> content[1][2], companies |-> content[1][3]]
    ELSE [ok |-> FALSE, timestamp |-> <<0, 0>>, companies |-> None]

\* load_cache with the freshness test off by one ("<=" for "<"): an entry
\* exactly seven days old still counts as fresh
load_cache_le(f, t) ==
    IF f.exists
    THEN LET data == Parse(f.content)
         IN  IF ~data.ok THEN [raised |-> TRUE, value |-> None]
             ELSE IF t - fromisoformat(data.timestamp) <= CACHE_DURATION
                  THEN [raised |-> FALSE, value |-> data.companies]
                  ELSE [raised |-> FALSE, value |-> None]
    ELSE [raised |-> FALSE, value |-> None]

\* get_sec.load_cache at time t: the value returned, or raised = TRUE when an
\* exception leaves it (json.load / fromisoformat are not guarded)
load_cache(f, t) ==
    IF f.exists
    THEN LET data == Parse(f.content)
         IN  IF ~data.ok THEN [raised |-> TRUE, value |-> None]
             ELSE IF t - fromisoformat(data.timestamp) < CACHE_DURATION
                  THEN [raised |-> FALSE, value |-> data.companies]
                  ELSE [raised |-> FALSE, value |-> None]
    ELSE [raised |-> FALSE, value |-> None]

\* Python truthiness of a registry value: None and {} are false
Truthy(v) == v # None /\ v # "{}"

\* a file handle's write of piece k: the file grows (with a hole, if it was
\* truncated meanwhile) or is overwritten in place
WriteAt(content, k, chunk) ==
    LET n == IF Len(content) > k THEN Len(content) ELSE k
    IN  [i \in 1..n |-> IF i = k THEN chunk
                        ELSE IF i <= Len(content) THEN content[i] ELSE Hole]

IdleLoc == [seen |-> "", seenTs |-> <<0, 0>>, seenCompanies |-> None, at |-> 0,
            cached |-> None, companies |-> None, ts |-> 0, off |-> 0, ret |-> None]

\* what load_cache found in the file, for the record kept in cloc
SeenKind(f) == IF ~f.exists THEN "absent"
               ELSE IF Parse(f.content).ok THEN "entry" ELSE "partial"

\* get_company_data is entered
CallGetCompanyData(c) ==
    /\ cpc[c] = "idle"
    /\ cpc' = [cpc EXCEPT ![c] = "load"]
    /\ cloc' = [cloc EXCEPT ![c] = IdleLoc]
    /\ UNCHANGED <<now, ticks, file>>
    /\ UNCHANGED <<resolveVars, appVars, retryVars, normVars, disputeVars>>

\* cached_data = load_cache()
LoadCache(c) ==
    /\ cpc[c] = "load"
    /\ LET r == load_cache(file, now)
       IN  /\ cpc' = [cpc EXCEPT ![c] = IF r.raised THEN "raised" ELSE "loaded"]
           /\ cloc' = [cloc EXCEPT ![c] =
                         [IdleLoc EXCEPT !.seen = SeenKind(file),
                                         !.seenTs = Parse(file.content).timestamp,
                                         !.seenCompanies = Parse(file.content).companies,
                                         !.at = now,
                                         !.cached = r.value]]
    /\ UNCHANGED <<now, ticks, file>>
    /\ UNCHANGED <<resolveVars, appVars, retryVars, normVars, disputeVars>>

\* if cached_data: return cached_data -- else go on to fetch
UseCache(c) ==
    /\ cpc[c] = "loaded"
    /\ IF Truthy(cloc[c].cached)
       THEN /\ cpc' = [cpc EXCEPT ![c] = "ret"]
            /\ cloc' = [cloc EXCEPT ![c] = [IdleLoc EXCEPT !.ret = cloc[c].cached]]
       ELSE /\ cpc' = [cpc EXCEPT ![c] = "fetch"]
            /\ cloc' = [cloc EXCEPT ![c] = IdleLoc]
    /\ UNCHANGED <<now, ticks, file>>
    /\ UNCHANGED <<resolveVars, appVars, retryVars, normVars, disputeVars>>

\* requests.get(...): status 200 with a registry, another status, or an error
FetchRegistry(c) ==
    /\ cpc[c] = "fetch"
    /\ \/ \E p \in Registries :
            /\ cpc' = [cpc EXCEPT ![c] = "save_open"]
            /\ cloc' = [cloc EXCEPT ![c].companies = p]
       \/ /\ cpc' = [cpc EXCEPT ![c] = "ret"]
          /\ cloc' = [cloc EXCEPT ![c].ret = None]
       \/ /\ cpc' = [cpc EXCEPT ![c] = "raised"]
          /\ UNCHANGED cloc
    /\ UNCHANGED <<now, ticks, file>>
    /\ UNCHANGED <<resolveVars, appVars, retryVars, normVars, disputeVars>>

\* save_cache: open(CACHE_FILE, "w") truncates the file; the timestamp is
\* taken right after
SaveOpen(c) ==
    /\ cpc[c] = "save_open"
    /\ file' = [exists |-> TRUE, content |-> <<>>]
    /\ cpc' = [cpc EXCEPT ![c] = "save_write"]
    /\ cloc' = [cloc EXCEPT ![c].ts = now, ![c].off = 0]
    /\ UNCHANGED <<now, ticks>>
    /\ UNCHANGED <<resolveVars, appVars, retryVars, normVars, disputeVars>>

\* save_cache: json.dump writes the next piece
SaveWrite(c) ==
    /\ cpc[c] = "save_write"
    /\ cloc[c].off < NumChunks
    /\ LET k == cloc[c].off + 1
       IN  /\ file' = [exists |-> TRUE,
                       content |-> WriteAt(file.content, k,
                                           Chunk(cloc[c].ts, cloc[c].companies, k))]
           /\ cloc' = [cloc EXCEPT ![c].off = k]
    /\ UNCHANGED <<now, ticks, cpc>>
    /\ UNCHANGED <<resolveVars, appVars, retryVars, normVars, disputeVars>>

\* save_cache returns (the file is closed); get_company_data returns companies
SaveClose(c) ==
    /\ cpc[c] = "save_write"
    /\ cloc[c].off = NumChunks
    /\ cpc' = [cpc EXCEPT ![c] = "ret"]
    /\ cloc' = [cloc EXCEPT ![c] = [IdleLoc EXCEPT !.ret = cloc[c].companies]]
    /\ UNCHANGED <<now, ticks, file>>
    /\ UNCHANGED <<resolveVars, appVars, retryVars, normVars, disputeVars>>

\* the caller has the return value (or the exception) and goes on
ReturnFromGetCompanyData(c) ==
    /\ cpc[c] \in {"ret", "raised"}
    /\ cpc' = [cpc EXCEPT ![c] = "idle"]
    /\ cloc' = [cloc EXCEPT ![c] = IdleLoc]
    /\ UNCHANGED <<now, ticks, file>>
    /\ UNCHANGED <<resolveVars, appVars, retryVars, normVars, disputeVars>>

\* the process is killed while a save_cache is under way; the file stays as
\* it is and the program starts again
Crash ==
    /\ \E c \in Callers : cpc[c] = "save_write"
    /\ cpc' = [c \in Callers |-> "idle"]
    /\ cloc' = [c \in Callers |-> IdleLoc]
    /\ UNCHANGED <<now, ticks, file>>
    /\ UNCHANGED <<resolveVars, appVars, retryVars, normVars, disputeVars>>

\* time passes
Tick ==
    /\ ticks < MaxTicks
    /\ \E d \in TickSteps : now' = now + d
    /\ ticks' = ticks + 1
    /\ UNCHANGED <<file, cpc, cloc>>
    /\ UNCHANGED <<resolveVars, appVars, retryVars, normVars, disputeVars>>

InitCacheVars ==
    /\ now = 0
    /\ ticks = 0
    /\ file = Absent
    /\ cpc = [c \in Callers |-> "idle"]
    /\ cloc = [c \in Callers |-> IdleLoc]

NextCache ==
    \/ Tick
    \/ Crash
    \/ \E c \in Callers : CallGetCompanyData(c)
    \/ \E c \in Callers : LoadCache(c)
    \/ \E c \in Callers : UseCache(c)
    \/ \E c \in Callers : FetchRegistry(c)
    \/ \E c \in Callers : SaveOpen(c)
    \/ \E c \in Callers : SaveWrite(c)
    \/ \E c \in Callers : SaveClose(c)
    \/ \E c \in Callers : ReturnFromGetCompanyData(c)

(***************************************************************************)
(* Resolver calls: the dataset and the scores are inputs, drawn in Init     *)
(***************************************************************************)
RowSeqs == UNION {[1..n -> Names] : n \in 0..MaxRows}

InitResolveInputs ==
    /\ rows \in RowSeqs
    /\ score \in [Names -> ScoreValues]
    /\ rcall = ""
    /\ rout = NotCalled

\* no resolver input: the state of these variables in the other specifications
InitResolveVars ==
    /\ rows = <<>>
    /\ score = [n \in Names |-> 49]
    /\ rcall = ""
    /\ rout = NotCalled

Call_get_ticker ==
    /\ rcall = ""
    /\ rcall' = "get_ticker"
    /\ rout' = get_ticker(rows, score)
    /\ UNCHANGED <<rows, score>>
    /\ UNCHANGED <<cacheVars, appVars, retryVars, normVars, disputeVars>>

Call_get_ticker_or_cik ==
    /\ rcall = ""
    /\ rcall' = "get_ticker_or_cik"
    /\ rout' = get_ticker_or_cik(rows, score)
    /\ UNCHANGED <<rows, score>>
    /\ UNCHANGED <<cacheVars, appVars, retryVars, normVars, disputeVars>>

Call_process_and_match_companies ==
    /\ rcall = ""
    /\ rcall' = "process_and_match_companies"
    /\ rout' = process_and_match_companies(rows, score)
    /\ UNCHANGED <<rows, score>>
    /\ UNCHANGED <<cacheVars, appVars, retryVars, normVars, disputeVars>>

Call_layoffs ==
    /\ rcall = ""
    /\ rcall' = "layoffs"
    /\ rout' = layoffs(rows, score)
    /\ UNCHANGED <<rows, score>>
    /\ UNCHANGED <<cacheVars, appVars, retryVars, normVars, disputeVars>>

Call_get_filtered_company_jobs ==
    /\ rcall = ""
    /\ rcall' = "get_filtered_company_jobs"
    /\ \E scrape_ok \in BOOLEAN :
         rout' = get_filtered_company_jobs(rows, score, scrape_ok, JOBS_THRESHOLD)
    /\ UNCHANGED <<rows, score>>
    /\ UNCHANGED <<cacheVars, appVars, retryVars, normVars, disputeVars>>

NextResolve ==
    \/ Call_layoffs
    \/ Call_process_and_match_companies
    \/ Call_get_filtered_company_jobs
    \/ Call_get_ticker
    \/ Call_get_ticker_or_cik

(***************************************************************************)
(* StockApp: fetch_all_data, its fetch thread, and the Tk main loop         *)
(***************************************************************************)
\* fetch threads started in a run where every source may fail (MaxQueries)
\* and in a run of overlapping queries (MaxOverlap)
MaxQueries == 1
MaxOverlap == 2
Queries == 1..(IF MaxQueries > MaxOverlap THEN MaxQueries ELSE MaxOverlap)

\* the external sources of a query
AllSources == {"market", "hist", "h1b", "layoff", "jobs", "dispute", "sec"}

Tabs == {"overview", "daily", "monthly", "h1b", "layoff", "jobs", "dispute", "sec"}

\* the fetch thread's local variables: "unset" (not assigned), "data" (a
\* result), "none" (None), "error" (an error dict / error text).  failed: the
\* sources whose call failed (returned an error result or raised) so far.
FreshLoc == [current_data |-> "unset", hist_data |-> "unset", h1b_df |-> "unset",
             layoff_df |-> "unset", jobs_df |-> "unset",
             dispute_report |-> "unset", summary |-> "unset", failed |-> {}]

InitAppState ==
    /\ tpc = [q \in Queries |-> "none"]
    /\ tloc = [q \in Queries |-> FreshLoc]
    /\ started = 0
    /\ afterq = <<>>
    /\ loading = FALSE
    /\ search_enabled = TRUE
    /\ export_enabled = FALSE
    /\ tabs = [t \in Tabs |-> {}]
    /\ current_hist_data = 0   \* None; otherwise the query that stored it
    /\ current_symbol = 0
    /\ handled = ""
    /\ off_main = {}
    /\ exported = <<0, 0>>

\* one query, every source may fail
InitAppVars ==
    /\ InitAppState
    /\ max_threads = MaxQueries
    /\ varying = AllSources

\* overlapping queries; only the market data may fail
InitOverlapVars ==
    /\ InitAppState
    /\ max_threads = MaxOverlap
    /\ varying = {"market"}

\* root.after(0, lambda: fn(...)) called by the thread of query q
After(queue, fns, q) == queue \o [i \in 1..Len(fns) |-> [fn |-> fns[i], q |-> q]]

\* StockApp.clear_frames: destroys the children of four of the eight frames
clear_frames(tb) ==
    [t \in Tabs |-> IF t \in {"overview", "daily", "monthly", "h1b"} THEN {} ELSE tb[t]]

\* The handler of the search button and of <Return> in the entry field, up to
\* the start of the fetch thread.  name: the entry's text after strip();
\* df, sc: data/companies.csv and the scores of its titles; valid: whether
\* the ticker found passes validate_symbol.
fetch_all_data(name, df, sc, valid) ==
    /\ LET ticker == get_ticker(df, sc)
       IN  IF name = ""
           THEN /\ handled' = "empty_name"
                /\ UNCHANGED <<tpc, tloc, started>>
           ELSE IF ticker.status # "value"
           THEN /\ handled' = "raised"   \* ticker.upper() on None
                /\ UNCHANGED <<tpc, tloc, started>>
           ELSE IF ~valid
           THEN /\ handled' = "invalid_symbol"
                /\ UNCHANGED <<tpc, tloc, started>>
           ELSE /\ started < max_threads
                /\ handled' = "started"
                /\ started' = started + 1
                /\ tpc' = [tpc EXCEPT ![started + 1] = "show_loading"]
                /\ tloc' = [tloc EXCEPT ![started + 1] = FreshLoc]
    /\ UNCHANGED <<afterq, loading, search_enabled, export_enabled, tabs,
                   current_hist_data, current_symbol>>
    /\ UNCHANGED <<max_threads, varying, off_main, exported>>
    /\ UNCHANGED <<resolveVars, cacheVars, retryVars, normVars, disputeVars>>

CompanyFiles == {<<>>, <<<<"a">>>>}

\* the search button is pressed (only possible while it is enabled)
PressSearch ==
    /\ search_enabled
    /\ \E name \in {"", "acme"}, df \in CompanyFiles, valid \in BOOLEAN :
         fetch_all_data(name, df, [n \in Names |-> 95], valid)

\* <Return> is pressed in the entry field (the binding is never removed)
PressReturn ==
    \E name \in {"", "acme"}, df \in CompanyFiles, valid \in BOOLEAN :
         fetch_all_data(name, df, [n \in Names |-> 95], valid)

\* fetch_thread: self.show_loading(True); self.clear_frames()
T_ShowLoading(q) ==
    /\ UNCHANGED <<handled, max_threads, varying, exported>>
    /\ off_main' = off_main \cup {"show_loading", "clear_frames"}
    /\ tpc[q] = "show_loading"
    /\ loading' = TRUE
    /\ search_enabled' = FALSE
    /\ export_enabled' = FALSE
    /\ tabs' = clear_frames(tabs)
    /\ tpc' = [tpc EXCEPT ![q] = "fetch_stock_data"]
    /\ UNCHANGED <<tloc, started, afterq, current_hist_data, current_symbol>>
    /\ UNCHANGED <<resolveVars, cacheVars, retryVars, normVars, disputeVars>>

\* fetch_thread: fetch_stock_data(symbol); on failure schedule the error and return
T_FetchStockData(q) ==
    /\ UNCHANGED <<handled, max_threads, varying, off_main, exported>>
    /\ tpc[q] = "fetch_stock_data"
    /\ \/ /\ tloc' = [tloc EXCEPT ![q].current_data = "data"]
          /\ tpc' = [tpc EXCEPT ![q] = "fetch_historical_data"]
          /\ UNCHANGED afterq
       \/ /\ "market" \in varying
          /\ tloc' = [tloc EXCEPT ![q].current_data = "error",
                                  ![q].failed = @ \cup {"market"}]
          /\ afterq' = After(afterq, <<"show_loading_false", "display_error">>, q)
          /\ tpc' = [tpc EXCEPT ![q] = "done"]
    /\ UNCHANGED <<started, loading, search_enabled, export_enabled, tabs,
                   current_hist_data, current_symbol>>
    /\ UNCHANGED <<resolveVars, cacheVars, retryVars, normVars, disputeVars>>

\* fetch_thread: fetch_historical_data(symbol); on failure schedule the error and return
T_FetchHistoricalData(q) ==
    /\ UNCHANGED <<handled, max_threads, varying, off_main, exported>>
    /\ tpc[q] = "fetch_historical_data"
    /\ \/ /\ tloc' = [tloc EXCEPT ![q].hist_data = "data"]
          /\ tpc' = [tpc EXCEPT ![q] = "h1b"]
          /\ UNCHANGED afterq
       \/ /\ "hist" \in varying
          /\ tloc' = [tloc EXCEPT ![q].hist_data = "error",
                                  ![q].failed = @ \cup {"hist"}]
          /\ afterq' = After(afterq, <<"show_loading_false", "display_error">>, q)
          /\ tpc' = [tpc EXCEPT ![q] = "done"]
    /\ UNCHANGED <<started, loading, search_enabled, export_enabled, tabs,
                   current_hist_data, current_symbol>>
    /\ UNCHANGED <<resolveVars, cacheVars, retryVars, normVars, disputeVars>>

\* fetch_thread: h1b_df = process_and_match_companies(company_name), outside
\* any try: an exception ends the thread
T_H1b(q) ==
    /\ UNCHANGED <<handled, max_threads, varying, off_main, exported>>
    /\ tpc[q] = "h1b"
    /\ \/ \E v \in {"data", "none"} :
            /\ v = "data" \/ "h1b" \in varying
            /\ tloc' = [tloc EXCEPT ![q].h1b_df = v]
            /\ tpc' = [tpc EXCEPT ![q] = "layoffs"]
       \/ /\ "h1b" \in varying
          /\ tloc' = [tloc EXCEPT ![q].failed = @ \cup {"h1b"}]
          /\ tpc' = [tpc EXCEPT ![q] = "died"]
    /\ UNCHANGED <<started, afterq, loading, search_enabled, export_enabled, tabs,
                   current_hist_data, current_symbol>>
    /\ UNCHANGED <<resolveVars, cacheVars, retryVars, normVars, disputeVars>>

\* fetch_thread: the try block around layoffs(company_name).  None makes
\* layoff_df.empty raise, which the except clause catches like any error.
T_Layoffs(q) ==
    /\ UNCHANGED <<handled, max_threads, varying, off_main, exported>>
    /\ tpc[q] = "layoffs"
    /\ \/ /\ tloc' = [tloc EXCEPT ![q].layoff_df = "data"]
          /\ afterq' = After(afterq, <<"display_layoff_charts">>, q)
       \/ /\ "layoff" \in varying
          /\ tloc' = [tloc EXCEPT ![q].layoff_df = "none"]
          /\ afterq' = After(afterq, <<"clear_layoff_tab">>, q)
       \/ /\ "layoff" \in varying
          /\ tloc' = [tloc EXCEPT ![q].failed = @ \cup {"layoff"}]
          /\ afterq' = After(afterq, <<"clear_layoff_tab">>, q)
    /\ tpc' = [tpc EXCEPT ![q] = "jobs"]
    /\ UNCHANGED <<started, loading, search_enabled, export_enabled, tabs,
                   current_hist_data, current_symbol>>
    /\ UNCHANGED <<resolveVars, cacheVars, retryVars, normVars, disputeVars>>

\* fetch_thread: the try block around get_filtered_company_jobs
T_Jobs(q) ==
    /\ UNCHANGED <<handled, max_threads, varying, off_main, exported>>
    /\ tpc[q] = "jobs"
    /\ \/ \E v \in {"data", "none"} :
            /\ v = "data" \/ "jobs" \in varying
            /\ tloc' = [tloc EXCEPT ![q].jobs_df = v]
            /\ afterq' = After(afterq, <<"display_jobs">>, q)
       \/ /\ "jobs" \in varying
          /\ tloc' = [tloc EXCEPT ![q].failed = @ \cup {"jobs"}]
          /\ afterq' = After(afterq, <<"display_jobs_none">>, q)
    /\ tpc' = [tpc EXCEPT ![q] = "get_info"]
    /\ UNCHANGED <<started, loading, search_enabled, export_enabled, tabs,
                   current_hist_data, current_symbol>>
    /\ UNCHANGED <<resolveVars, cacheVars, retryVars, normVars, disputeVars>>

\* fetch_thread: the try block around get_info
T_GetInfo(q) ==
    /\ UNCHANGED <<handled, max_threads, varying, off_main, exported>>
    /\ tpc[q] = "get_info"
    /\ \/ tloc' = [tloc EXCEPT ![q].dispute_report = "data"]
       \/ /\ "dispute" \in varying
          /\ tloc' = [tloc EXCEPT ![q].dispute_report = "error",
                                  ![q].failed = @ \cup {"dispute"}]
    /\ tpc' = [tpc EXCEPT ![q] = "get_summary"]
    /\ UNCHANGED <<started, afterq, loading, search_enabled, export_enabled, tabs,
                   current_hist_data, current_symbol>>
    /\ UNCHANGED <<resolveVars, cacheVars, retryVars, normVars, disputeVars>>

\* fetch_thread: the try block around get_summary
T_GetSummary(q) ==
    /\ UNCHANGED <<handled, max_threads, varying, off_main, exported>>
    /\ tpc[q] = "get_summary"
    /\ \/ /\ tloc' = [tloc EXCEPT ![q].summary = "data"]
          /\ tpc' = [tpc EXCEPT ![q] = "store_hist"]
       \/ /\ "sec" \in varying
          /\ tloc' = [tloc EXCEPT ![q].summary = "error",
                                  ![q].failed = @ \cup {"sec"}]
          /\ tpc' = [tpc EXCEPT ![q] = "store_hist"]
       \* requests.get (no timeout argument) never returns
       \/ /\ "sec" \in varying
          /\ tpc' = [tpc EXCEPT ![q] = "blocked"]
          /\ UNCHANGED tloc
    /\ UNCHANGED <<started, afterq, loading, search_enabled, export_enabled, tabs,
                   current_hist_data, current_symbol>>
    /\ UNCHANGED <<resolveVars, cacheVars, retryVars, normVars, disputeVars>>

\* fetch_thread: self.current_hist_data = hist_data
T_StoreHist(q) ==
    /\ UNCHANGED <<handled, max_threads, varying, off_main, exported>>
    /\ tpc[q] = "store_hist"
    /\ current_hist_data' = q
    /\ tpc' = [tpc EXCEPT ![q] = "store_symbol"]
    /\ UNCHANGED <<tloc, started, afterq, loading, search_enabled, export_enabled,
                   tabs, current_symbol>>
    /\ UNCHANGED <<resolveVars, cacheVars, retryVars, normVars, disputeVars>>

\* fetch_thread: self.current_symbol = symbol
T_StoreSymbol(q) ==
    /\ UNCHANGED <<handled, max_threads, varying, off_main, exported>>
    /\ tpc[q] = "store_symbol"
    /\ current_symbol' = q
    /\ tpc' = [tpc EXCEPT ![q] = "schedule"]
    /\ UNCHANGED <<tloc, started, afterq, loading, search_enabled, export_enabled,
                   tabs, current_hist_data>>
    /\ UNCHANGED <<resolveVars, cacheVars, retryVars, normVars, disputeVars>>

\* fetch_thread: the eight root.after calls that end it
T_Schedule(q) ==
    /\ UNCHANGED <<handled, max_threads, varying, off_main, exported>>
    /\ tpc[q] = "schedule"
    /\ afterq' = After(afterq,
                       <<"show_loading_false", "display_overview", "display_charts",
                         "display_h1b_charts", "display_layoff_charts", "display_jobs",
                         "display_dispute_report", "display_sec_summary">>, q)
    /\ tpc' = [tpc EXCEPT ![q] = "done"]
    /\ UNCHANGED <<tloc, started, loading, search_enabled, export_enabled, tabs,
                   current_hist_data, current_symbol>>
    /\ UNCHANGED <<resolveVars, cacheVars, retryVars, normVars, disputeVars>>

\* What a callback does to the notebook.  An item <<kind, q>> in a tab is a
\* widget showing query q's result ("result"), a no-data message ("none"), an
\* error message ("error") or a frame left empty by a callback that raised
\* ("blank").
Shown(v, q) == IF v = "data" THEN <<"result", q>>
               ELSE IF v = "none" THEN <<"none", q>> ELSE <<"error", q>>

CallbackTabs(cb, tb) ==
    LET q == cb.q
        L == tloc[q]
    IN  CASE cb.fn = "display_error" ->
               [clear_frames(tb) EXCEPT !["overview"] = {<<"error", q>>}]
          [] cb.fn = "display_overview" ->
               [tb EXCEPT !["overview"] = @ \cup {Shown(L.current_data, q)}]
          [] cb.fn = "display_charts" ->
               [tb EXCEPT !["daily"] = {Shown(L.hist_data, q)},
                          !["monthly"] = {Shown(L.hist_data, q)}]
          [] cb.fn = "display_h1b_charts" ->
               \* create_h1b_figures(None) raises after the frame was gridded
               [tb EXCEPT !["h1b"] = @ \cup {IF L.h1b_df = "data"
                                             THEN <<"result", q>> ELSE <<"blank", q>>}]
          [] cb.fn = "display_layoff_charts" ->
               \* layoff_df unassigned: the lambda raises NameError;
               \* None: create_layoff_figures draws its error texts
               IF L.layoff_df = "unset" THEN tb
               ELSE [tb EXCEPT !["layoff"] = @ \cup {IF L.layoff_df = "data"
                                                THEN <<"result", q>> ELSE <<"error", q>>}]
          [] cb.fn = "display_jobs" ->
               IF L.jobs_df = "unset" THEN tb
               ELSE [tb EXCEPT !["jobs"] = {Shown(L.jobs_df, q)}]
          [] cb.fn = "display_jobs_none" ->
               [tb EXCEPT !["jobs"] = {<<"none", q>>}]
          [] cb.fn = "display_dispute_report" ->
               [tb EXCEPT !["dispute"] = {Shown(L.dispute_report, q)}]
          [] cb.fn = "display_sec_summary" ->
               [tb EXCEPT !["sec"] = {Shown(L.summary, q)}]
          [] OTHER -> tb   \* show_loading; clear_layoff_tab does not exist

\* The Tk main loop runs the oldest callback queued with root.after
RunCallback ==
    /\ UNCHANGED <<handled, max_threads, varying, off_main, exported>>
    /\ afterq # <<>>
    /\ LET cb == Head(afterq)
       IN  /\ afterq' = Tail(afterq)
           /\ tabs' = CallbackTabs(cb, tabs)
           /\ IF cb.fn = "show_loading_false"
              THEN /\ loading' = FALSE
                   /\ search_enabled' = TRUE
                   /\ export_enabled' = IF current_hist_data # 0
                                        THEN TRUE ELSE export_enabled
              ELSE UNCHANGED <<loading, search_enabled, export_enabled>>
    /\ UNCHANGED <<tpc, tloc, started, current_hist_data, current_symbol>>
    /\ UNCHANGED <<resolveVars, cacheVars, retryVars, normVars, disputeVars>>

\* The export button is pressed (only possible while it is enabled):
\* export_data writes current_hist_data under current_symbol, or shows an
\* error when either is unset
ExportData ==
    /\ export_enabled
    /\ exported' = IF current_hist_data = 0 \/ current_symbol = 0
                   THEN <<0, 0>> ELSE <<current_symbol, current_hist_data>>
    /\ UNCHANGED <<tpc, tloc, started, afterq, loading, search_enabled,
                   export_enabled, tabs, current_hist_data, current_symbol,
                   handled, max_threads, varying, off_main>>
    /\ UNCHANGED <<resolveVars, cacheVars, retryVars, normVars, disputeVars>>

NextApp ==
    \/ ExportData
    \/ PressSearch
    \/ PressReturn
    \/ RunCallback
    \/ \E q \in Queries : T_ShowLoading(q)
    \/ \E q \in Queries : T_FetchStockData(q)
    \/ \E q \in Queries : T_FetchHistoricalData(q)
    \/ \E q \in Queries : T_H1b(q)
    \/ \E q \in Queries : T_Layoffs(q)
    \/ \E q \in Queries : T_Jobs(q)
    \/ \E q \in Queries : T_GetInfo(q)
    \/ \E q \in Queries : T_GetSummary(q)
    \/ \E q \in Queries : T_StoreHist(q)
    \/ \E q \in Queries : T_StoreSymbol(q)
    \/ \E q \in Queries : T_Schedule(q)

(***************************************************************************)
(* Calls of external sources: the tenacity wrapper of                       *)
(* jobsearch.get_company_jobs and the call sites that reach a source        *)
(* directly (the job search of fetch_thread, requests.get in               *)
(* get_company_data, session.get in search_cases).                          *)
(***************************************************************************)
\* @retry(stop=stop_after_attempt(3), wait=wait_exponential(multiplier=1,
\* min=4, max=10)); exp_base is tenacity's default
STOP_AFTER_ATTEMPT == 3
WAIT_MULTIPLIER == 1
WAIT_MIN == 4
WAIT_MAX == 10
EXP_BASE == 2

\* exceptions an attempt may raise and HTTP statuses a request may answer
TransientErrors == {"ConnectionError", "Timeout"}
NonTransientErrors == {"ValueError", "JSONDecodeError"}
Statuses == {200, 404, 503}

\* how an attempt ends: a value is returned, an exception is raised, a
\* response with a status arrives
Returned(v) == [kind |-> "return", v |-> v, status |-> 0]
Raised(e) == [kind |-> "raise", v |-> e, status |-> 0]
Response(st, v) == [kind |-> "response", v |-> v, status |-> st]
NoOutcome == [kind |-> "", v |-> "", status |-> 0]

\* get_filtered_company_jobs returns a frame of jobs or None, or raises
JobSearchOutcomes ==
    {Returned(v) : v \in {"jobs", "None"}}
        \cup {Raised(e) : e \in TransientErrors \cup NonTransientErrors}
\* an HTTP request answers with a status or raises
RequestOutcomes ==
    {Response(st, "body") : st \in Statuses} \cup {Raised(e) : e \in TransientErrors}

\* tenacity.stop_after_attempt(3): stop once this many attempts were made
\* (the two variants stop one attempt early and one attempt late)
stop_after_attempt_2(n) == n >= STOP_AFTER_ATTEMPT - 1
stop_after_attempt_4(n) == n >= STOP_AFTER_ATTEMPT + 1
stop_after_attempt(n) == n >= STOP_AFTER_ATTEMPT

\* tenacity's default retry condition, retry_if_exception_type(Exception):
\* every exception is retried
retry_if_exception_type(e) == e \in TransientErrors \cup NonTransientErrors

\* tenacity.wait_exponential: multiplier * exp_base ** (attempt_number - 1),
\* clamped to [min, max]
wait_exponential(n) ==
    LET result == WAIT_MULTIPLIER * EXP_BASE ^ (n - 1)
        capped == IF result < WAIT_MAX THEN result ELSE WAIT_MAX
    IN  IF capped > WAIT_MIN THEN capped ELSE WAIT_MIN

\* RetryError(last_attempt)
RetryError(last_attempt) == [type |-> "RetryError", last_attempt |-> last_attempt]
NoExc == [type |-> "", last_attempt |-> NoOutcome]

Sites == {"get_company_jobs", "fetch_thread", "get_company_data", "search_cases"}

InitRetryVars ==
    /\ site = ""
    /\ rpc = "idle"
    /\ attempt_number = 0
    /\ outcome = NoOutcome
    /\ hist = <<>>
    /\ slept = <<>>
    /\ rexc = NoExc
    /\ rret = ""

\* one of the call sites is entered
CallSite ==
    /\ rpc = "idle"
    /\ \E s \in Sites : site' = s
    /\ rpc' = "attempt"
    /\ attempt_number' = 1
    /\ UNCHANGED <<outcome, hist, slept, rexc, rret>>
    /\ UNCHANGED <<resolveVars, cacheVars, appVars, normVars, disputeVars>>

\* get_company_jobs: one attempt of _retryable_job_search under @retry
RetryAttempt ==
    /\ site = "get_company_jobs"
    /\ rpc = "attempt"
    /\ \E o \in JobSearchOutcomes :
        /\ outcome' = o
        /\ hist' = Append(hist, o)
        /\ IF o.kind = "return"
           THEN rpc' = "return" /\ rexc' = rexc
           ELSE IF ~retry_if_exception_type(o.v)
           THEN rpc' = "except" /\ rexc' = [type |-> o.v, last_attempt |-> o]
           ELSE IF stop_after_attempt(attempt_number)
           THEN rpc' = "except" /\ rexc' = RetryError(o)
           ELSE rpc' = "sleep" /\ rexc' = rexc
    /\ UNCHANGED <<site, attempt_number, slept, rret>>
    /\ UNCHANGED <<resolveVars, cacheVars, appVars, normVars, disputeVars>>

\* tenacity sleeps wait(retry_state) and counts the next attempt
RetrySleep ==
    /\ site = "get_company_jobs"
    /\ rpc = "sleep"
    /\ slept' = Append(slept, wait_exponential(attempt_number))
    /\ attempt_number' = attempt_number + 1
    /\ rpc' = "attempt"
    /\ UNCHANGED <<site, outcome, hist, rexc, rret>>
    /\ UNCHANGED <<resolveVars, cacheVars, appVars, normVars, disputeVars>>

\* get_company_jobs: return _retryable_job_search()
RetryReturn ==
    /\ site = "get_company_jobs"
    /\ rpc = "return"
    /\ rret' = outcome.v
    /\ rpc' = "returned"
    /\ UNCHANGED <<site, attempt_number, outcome, hist, slept, rexc>>
    /\ UNCHANGED <<resolveVars, cacheVars, appVars, normVars, disputeVars>>

\* get_company_jobs: except Exception -> return pd.DataFrame()
RetryExcept ==
    /\ site = "get_company_jobs"
    /\ rpc = "except"
    /\ rret' = "EmptyDataFrame"
    /\ rpc' = "returned"
    /\ UNCHANGED <<site, attempt_number, outcome, hist, slept, rexc>>
    /\ UNCHANGED <<resolveVars, cacheVars, appVars, normVars, disputeVars>>

\* fetch_thread: jobs_df = get_filtered_company_jobs(...) inside try/except;
\* an exception ends in display_jobs(None)
FetchThreadJobSearch ==
    /\ site = "fetch_thread"
    /\ rpc = "attempt"
    /\ \E o \in JobSearchOutcomes :
        /\ outcome' = o
        /\ hist' = Append(hist, o)
        /\ rret' = IF o.kind = "return" THEN o.v ELSE "None"
    /\ rpc' = "returned"
    /\ UNCHANGED <<site, attempt_number, slept, rexc>>
    /\ UNCHANGED <<resolveVars, cacheVars, appVars, normVars, disputeVars>>

\* get_company_data: requests.get; 200 -> companies, another status -> None,
\* an exception of requests leaves get_company_data
RegistryRequest ==
    /\ site = "get_company_data"
    /\ rpc = "attempt"
    /\ \E o \in RequestOutcomes :
        /\ outcome' = o
        /\ hist' = Append(hist, o)
        /\ IF o.kind = "raise"
           THEN rpc' = "raised" /\ rexc' = [type |-> o.v, last_attempt |-> o]
                                /\ rret' = rret
           ELSE rpc' = "returned" /\ rexc' = rexc
                /\ rret' = IF o.status = 200 THEN "companies" ELSE "None"
    /\ UNCHANGED <<site, attempt_number, slept>>
    /\ UNCHANGED <<resolveVars, cacheVars, appVars, normVars, disputeVars>>

\* search_cases: session.get; 200 -> the JSON body, another status -> {},
\* an exception of aiohttp leaves search_cases
SearchCasesRequest ==
    /\ site = "search_cases"
    /\ rpc = "attempt"
    /\ \E o \in RequestOutcomes :
        /\ outcome' = o
        /\ hist' = Append(hist, o)
        /\ IF o.kind = "raise"
           THEN rpc' = "raised" /\ rexc' = [type |-> o.v, last_attempt |-> o]
                                /\ rret' = rret
           ELSE rpc' = "returned" /\ rexc' = rexc
                /\ rret' = IF o.status = 200 THEN "json" ELSE "{}"
    /\ UNCHANGED <<site, attempt_number, slept>>
    /\ UNCHANGED <<resolveVars, cacheVars, appVars, normVars, disputeVars>>

NextRetry ==
    \/ CallSite
    \/ RetryAttempt
    \/ RetrySleep
    \/ RetryReturn
    \/ RetryExcept
    \/ FetchThreadJobSearch
    \/ RegistryRequest
    \/ SearchCasesRequest

(***************************************************************************)
(* dispute.CourtListenerAPI: _normalize_company_name and the query built    *)
(* from its variants by search_cases.  A string is the sequence of its      *)
(* characters.                                                              *)
(***************************************************************************)
\* the list suffixes of _normalize_company_name, in the order of the source
suffixes ==
    << <<"I", "n", "c">>,
       <<"I", "n", "c", ".">>,
       <<"I", "n", "c", "o", "r", "p", "o", "r", "a", "t", "e", "d">>,
       <<"C", "o", "r", "p">>,
       <<"C", "o", "r", "p", ".">>,
       <<"C", "o", "r", "p", "o", "r", "a", "t", "i", "o", "n">>,
       <<"L", "L", "C">>,
       <<"L", ".", "L", ".", "C", ".">>,
       <<"L", "i", "m", "i", "t", "e", "d", " ", "L", "i", "a", "b", "i", "l", "i", "t", "y", " ", "C", "o", "m", "p", "a", "n", "y">>,
       <<"L", "t", "d">>,
       <<"L", "t", "d", ".">>,
       <<"L", "i", "m", "i", "t", "e", "d">>,
       <<"C", "o">>,
       <<"C", "o", ".">>,
       <<"C", "o", "m", "p", "a", "n", "y">> >>

\* the names tried: up to MaxPieces of these pieces, one after the other
MaxPieces == 3
Pieces ==
    { <<"a">>,
      <<" ">>,
      <<" ", "I", "n", "c">>,
      <<" ", "i", "n", "c">>,
      <<" ", "C", "o">>,
      <<" ", "C", "o", ".">>,
      <<" ", "C", "o", "m", "p", "a", "n", "y">>,
      <<" ", "L", "i", "m", "i", "t", "e", "d", " ", "L", "i", "a", "b", "i", "l", "i", "t", "y">>,
      <<" ", "L", "L", "C">> }

RECURSIVE NamesOf(_)
NamesOf(n) ==
    IF n = 0 THEN {<<>>}
    ELSE LET shorter == NamesOf(n - 1)
         IN  shorter \cup {s \o p : s \in shorter, p \in Pieces}
RawNames == NamesOf(MaxPieces)

\* str.lower(), character by character
ToLower ==
    ("A" :> "a") @@ ("B" :> "b") @@ ("C" :> "c") @@ ("D" :> "d") @@ ("E" :> "e") @@ ("F" :> "f") @@ ("G" :> "g") @@ ("H" :> "h") @@ ("I" :> "i") @@ ("J" :> "j") @@ ("K" :> "k") @@ ("L" :> "l") @@ ("M" :> "m")
    @@ ("N" :> "n") @@ ("O" :> "o") @@ ("P" :> "p") @@ ("Q" :> "q") @@ ("R" :> "r") @@ ("S" :> "s") @@ ("T" :> "t") @@ ("U" :> "u") @@ ("V" :> "v") @@ ("W" :> "w") @@ ("X" :> "x") @@ ("Y" :> "y") @@ ("Z" :> "z")
lower(s) == [i \in 1..Len(s) |-> IF s[i] \in DOMAIN ToLower THEN ToLower[s[i]] ELSE s[i]]

\* str.strip(): leading and trailing whitespace removed
RECURSIVE lstrip(_)
lstrip(s) == IF s # <<>> /\ Head(s) = " " THEN lstrip(Tail(s)) ELSE s
RECURSIVE rstrip(_)
rstrip(s) == IF s # <<>> /\ s[Len(s)] = " " THEN rstrip(SubSeq(s, 1, Len(s) - 1)) ELSE s
strip(s) == rstrip(lstrip(s))

\* str.endswith(suffix)
endswith(s, suffix) ==
    /\ Len(suffix) <= Len(s)
    /\ SubSeq(s, Len(s) - Len(suffix) + 1, Len(s)) = suffix

\* the loop "for suffix in suffixes: if name.endswith(f' {suffix}'): ... break"
\* from position k of the list on: name[:-len(suffix)].strip() for the first
\* suffix that matches, name itself when none does
RECURSIVE RemoveSuffix(_, _)
RemoveSuffix(name, k) ==
    IF k > Len(suffixes) THEN name
    ELSE IF endswith(name, <<" ">> \o suffixes[k])
         THEN strip(SubSeq(name, 1, Len(name) - Len(suffixes[k])))
         ELSE RemoveSuffix(name, k + 1)

\* name = company_name.strip() of the raw name; base_name = name without
\* the first suffix of the list that it ends with
BaseName(raw) == RemoveSuffix(strip(raw), 1)

\* f'"{s}"'
Quoted(s) == <<"\"">> \o s \o <<"\"">>

\* _normalize_company_name: list(set(variants)), as a set
_normalize_company_name(raw) ==
    LET name == strip(raw)
        base == BaseName(raw)
    IN  {name, base, Quoted(name), Quoted(base)}
            \cup {base \o <<" ">> \o suffixes[k] : k \in 1..Len(suffixes)}

InitNormVars ==
    /\ company_name = <<>>
    /\ npc = "idle"
    /\ base_name = <<>>
    /\ name_variants = {}
    /\ nraised = FALSE
    /\ searched = FALSE

InitNormInputs ==
    /\ company_name \in RawNames
    /\ npc = "idle"
    /\ base_name = <<>>
    /\ name_variants = {}
    /\ nraised = FALSE
    /\ searched = FALSE

\* search_cases: name_variants = self._normalize_company_name(company_name);
\* nothing in the function raises
Call_normalize_company_name ==
    /\ npc = "idle"
    /\ base_name' = BaseName(company_name)
    /\ name_variants' = _normalize_company_name(company_name)
    /\ nraised' = FALSE
    /\ npc' = "normalized"
    /\ UNCHANGED <<company_name, searched>>
    /\ UNCHANGED <<resolveVars, cacheVars, appVars, retryVars, disputeVars>>

\* search_cases: the OR query of the variants is built and sent
SendSearch ==
    /\ npc = "normalized"
    /\ ~nraised
    /\ searched' = TRUE
    /\ npc' = "searched"
    /\ UNCHANGED <<company_name, base_name, name_variants, nraised>>
    /\ UNCHANGED <<resolveVars, cacheVars, appVars, retryVars, disputeVars>>

NextNorm ==
    \/ Call_normalize_company_name
    \/ SendSearch

(***************************************************************************)
(* dispute.py: EmploymentAnalyzer.analyze_company over the case types of    *)
(* CourtListenerConfig.CASE_TYPES, the report and get_info.                 *)
(***************************************************************************)
\* CourtListenerConfig.CASE_TYPES, in the order of the dict
CASE_TYPES ==
    << [name |-> "Employment Discrimination", priority |-> 1],
       [name |-> "Wage Violations", priority |-> 1],
       [name |-> "Workplace Safety", priority |-> 2],
       [name |-> "Bankruptcy", priority |-> 1] >>

\* _update_risk_assessment: "recent_cases > 2", "total_cases > 5"
RECENT_LIMIT == 2
VOLUME_LIMIT == 5

\* a case of a response, by its dateFiled: within the last 365 days, older,
\* or absent / not parsable (such a case is skipped or its error is caught)
CaseKinds == {"recent", "old", "undated"}
MaxCases == 3
CaseLists == UNION {[1..n -> CaseKinds] : n \in 0..MaxCases}
Companies == {"acme", "globex"}

\* what search_cases returns: response.json() on status 200, {} otherwise
Json(rs) == [keys |-> {"results"}, results |-> rs]
EmptyDict == [keys |-> {}, results |-> <<>>]
\* cases.get("results", [])
GetResults(cases) == IF "results" \in cases.keys THEN cases.results ELSE <<>>

\* EmploymentAnalyzer._count_recent_cases
RECURSIVE _count_recent_cases(_)
_count_recent_cases(cases) ==
    IF cases = <<>> THEN 0
    ELSE (IF Head(cases) = "recent" THEN 1 ELSE 0) + _count_recent_cases(Tail(cases))

\* EmploymentAnalyzer._analyze_case_type
_analyze_case_type(cases, case_type) ==
    [total_cases |-> Len(GetResults(cases)),
     recent_cases |-> _count_recent_cases(GetResults(cases)),
     priority_level |-> case_type.priority]

\* EmploymentAnalyzer._update_risk_assessment on the fields of results it
\* changes (the first variant flags from RECENT_LIMIT cases on)
_update_risk_assessment_ge(res, case_analysis, case_type) ==
    LET flagged == case_type.priority = 1 /\ case_analysis.recent_cases >= RECENT_LIMIT
    IN  [red_flags |-> IF flagged THEN Append(res.red_flags, case_type.name)
                       ELSE res.red_flags,
         overall_risk |-> IF flagged THEN "HIGH" ELSE res.overall_risk,
         factors |-> IF case_analysis.total_cases > VOLUME_LIMIT
                     THEN Append(res.factors, case_type.name) ELSE res.factors]
_update_risk_assessment(res, case_analysis, case_type) ==
    LET flagged == case_type.priority = 1 /\ case_analysis.recent_cases > RECENT_LIMIT
    IN  [red_flags |-> IF flagged THEN Append(res.red_flags, case_type.name)
                       ELSE res.red_flags,
         overall_risk |-> IF flagged THEN "HIGH" ELSE res.overall_risk,
         factors |-> IF case_analysis.total_cases > VOLUME_LIMIT
                     THEN Append(res.factors, case_type.name) ELSE res.factors]

NoAnalysis == [total_cases |-> -1, recent_cases |-> -1, priority_level |-> 0]
NoReport == [kind |-> "", company |-> "", text |-> <<>>]
\* EmploymentAnalysisReport.generate_report: the report string, by what it
\* is made of
Report(company, res, summary) ==
    [kind |-> "str", company |-> company,
     text |-> <<res.overall_risk, res.red_flags, summary>>]
\* get_report(a) called and not awaited: a coroutine object, its body not run
Coroutine(arg) == [kind |-> "coroutine", company |-> "", text |-> <<arg>>]

InitDisputeState ==
    /\ dpc = "idle"
    /\ analysed = 0
    /\ answered = <<>>
    /\ case_summary = [i \in 1..Len(CASE_TYPES) |-> NoAnalysis]
    /\ results = [red_flags |-> <<>>, overall_risk |-> "LOW", factors |-> <<>>]
    /\ report = NoReport
    /\ reports_generated = 0
    /\ summarize_arg = NoReport

\* no litigation analysis: the state of these variables in the other
\* specifications
InitDisputeVars ==
    /\ dcompany = ""
    /\ InitDisputeState

InitDisputeInputs ==
    /\ dcompany \in Companies
    /\ InitDisputeState

\* get_info(company_name): asyncio.run(get_report(company_name)) enters
\* analyze_company
CallGetInfo ==
    /\ dpc = "idle"
    /\ dcompany # ""
    /\ dpc' = "analyzing"
    /\ UNCHANGED <<dcompany, analysed, answered, case_summary, results, report,
                   reports_generated, summarize_arg>>
    /\ UNCHANGED <<resolveVars, cacheVars, appVars, retryVars, normVars>>

\* analyze_company: one turn of the loop over the case types.  search_cases
\* answers 200 with a list of cases, answers another status (-> {}), or the
\* request raises, which ends get_info.
AnalyzeCaseType ==
    /\ dpc = "analyzing"
    /\ analysed < Len(CASE_TYPES)
    /\ LET i == analysed + 1
           case_type == CASE_TYPES[i]
       IN  \/ \E st \in Statuses, cl \in CaseLists :
                LET cases == IF st = 200 THEN Json(cl) ELSE EmptyDict
                    case_analysis == _analyze_case_type(cases, case_type)
                IN  /\ st # 200 => cl = <<>>
                    /\ answered' = Append(answered, st)
                    /\ case_summary' = [case_summary EXCEPT ![i] = case_analysis]
                    /\ results' = IF case_analysis.total_cases > 0
                                  THEN _update_risk_assessment(results, case_analysis,
                                                               case_type)
                                  ELSE results
                    /\ analysed' = i
                    /\ dpc' = dpc
           \/ /\ dpc' = "raised"
              /\ UNCHANGED <<analysed, answered, case_summary, results>>
    /\ UNCHANGED <<dcompany, report, reports_generated, summarize_arg>>
    /\ UNCHANGED <<resolveVars, cacheVars, appVars, retryVars, normVars>>

\* analyze_company returns results; get_report builds the report
GenerateReport ==
    /\ dpc = "analyzing"
    /\ analysed = Len(CASE_TYPES)
    /\ report' = Report(dcompany, results, case_summary)
    /\ reports_generated' = reports_generated + 1
    /\ dpc' = "reported"
    /\ UNCHANGED <<dcompany, analysed, answered, case_summary, results, summarize_arg>>
    /\ UNCHANGED <<resolveVars, cacheVars, appVars, retryVars, normVars>>

\* get_info: return summarize_dispute(get_report(a)), a being the report
Summarize ==
    /\ dpc = "reported"
    /\ summarize_arg' = Coroutine(report)
    /\ dpc' = "summarized"
    /\ UNCHANGED <<dcompany, analysed, answered, case_summary, results, report,
                   reports_generated>>
    /\ UNCHANGED <<resolveVars, cacheVars, appVars, retryVars, normVars>>

NextDispute ==
    \/ CallGetInfo
    \/ AnalyzeCaseType
    \/ GenerateReport
    \/ Summarize

(***************************************************************************)
(* Specifications                                                           *)
(***************************************************************************)
Init == InitResolveInputs /\ InitCacheVars /\ InitAppVars /\ InitRetryVars
            /\ InitNormVars /\ InitDisputeVars
Next == NextResolve \/ NextCache \/ NextApp \/ NextRetry \/ NextNorm
            \/ NextDispute
Spec == Init /\ [][Next]_vars

\* the resolvers applied to every dataset and score assignment
InitResolve == InitResolveInputs /\ InitCacheVars /\ InitAppVars /\ InitRetryVars
            /\ InitNormVars /\ InitDisputeVars
SpecResolve == InitResolve /\ [][NextResolve]_vars

\* the registry cache under concurrent callers, clock advances and crashes
InitCache == InitResolveVars /\ InitCacheVars /\ InitAppVars /\ InitRetryVars
            /\ InitNormVars /\ InitDisputeVars
SpecCache == InitCache /\ [][NextCache]_vars

\* the application: queries, fetch threads and the main loop
InitApp == InitResolveVars /\ InitCacheVars /\ InitAppVars /\ InitRetryVars
            /\ InitNormVars /\ InitDisputeVars
SpecApp == InitApp /\ [][NextApp]_vars

\* the same, with the scheduling the program has: a fetch thread that can
\* take a step eventually takes it, and the Tk main loop eventually runs a
\* queued callback
ThreadStep(q) ==
    \/ T_ShowLoading(q) \/ T_FetchStockData(q) \/ T_FetchHistoricalData(q)
    \/ T_H1b(q) \/ T_Layoffs(q) \/ T_Jobs(q) \/ T_GetInfo(q) \/ T_GetSummary(q)
    \/ T_StoreHist(q) \/ T_StoreSymbol(q) \/ T_Schedule(q)
SpecAppFair ==
    /\ SpecApp
    /\ \A q \in Queries : WF_vars(ThreadStep(q))
    /\ WF_vars(RunCallback)

\* the application with overlapping queries
InitOverlap == InitResolveVars /\ InitCacheVars /\ InitOverlapVars /\ InitRetryVars
            /\ InitNormVars /\ InitDisputeVars
SpecOverlap == InitOverlap /\ [][NextApp]_vars

\* the calls of external sources, each attempt ending in any of its outcomes
InitRetry == InitResolveVars /\ InitCacheVars /\ InitAppVars /\ InitRetryVars
            /\ InitNormVars /\ InitDisputeVars
SpecRetry == InitRetry /\ [][NextRetry]_vars

\* name normalization applied to every raw name
InitNorm == InitResolveVars /\ InitCacheVars /\ InitAppVars /\ InitRetryVars
            /\ InitNormInputs /\ InitDisputeVars
SpecNorm == InitNorm /\ [][NextNorm]_vars

\* get_info for a company, every case type answered in any way
InitDispute == InitResolveVars /\ InitCacheVars /\ InitAppVars /\ InitRetryVars
            /\ InitNormVars /\ InitDisputeInputs
SpecDispute == InitDispute /\ [][NextDispute]_vars

(***************************************************************************)
(* Claims about the resolvers (SpecResolve)                                 *)
(***************************************************************************)
\* the candidate names of the dataset and the best score among them
CandidateNames == {rows[i] : i \in 1..Len(rows)}
TopScore == CHOOSE m \in {score[n] : n \in CandidateNames} :
                \A n \in CandidateNames : score[n] <= m

\* the resolver ran on a dataset that has candidates (for the job search:
\* the scrape itself succeeded)
Resolved(fn) == rcall = fn /\ rows # <<>> /\ rout.exc # "scrape_jobs"

\* the threshold the claims give each dataset (get_ticker, the identity
\* registry, has none in the code: the registry threshold of get_sec.py)
ThresholdOf(fn) ==
    CASE fn = "get_ticker" -> 70
      [] fn = "get_ticker_or_cik" -> 70
      [] fn = "process_and_match_companies" -> 50
      [] fn = "layoffs" -> 80
      [] fn = "get_filtered_company_jobs" -> 80

Resolvers == {"get_ticker", "get_ticker_or_cik", "process_and_match_companies",
              "layoffs", "get_filtered_company_jobs"}

\* C3: every resolver, given candidates none of which reaches the dataset's
\* threshold, returns its no-match value (None) and raises nothing.
C3_NoMatchReturnsNone ==
    \A fn \in Resolvers :
        (Resolved(fn) /\ TopScore < ThresholdOf(fn)) => rout.status = "none"

\* C4: in the four threshold-gated resolvers a best score equal to the
\* threshold is accepted and a best score one below it is rejected.
C4_ThresholdInclusive ==
    \A fn \in Resolvers \ {"get_ticker"} :
        Resolved(fn) =>
            /\ (TopScore = ThresholdOf(fn) => rout.status = "value")
            /\ (TopScore = ThresholdOf(fn) - 1 => rout.status # "value")

\* C5: get_ticker returns no ticker when the best candidate scores below the
\* identity-registry threshold.
C5_GetTickerGated ==
    (Resolved("get_ticker") /\ TopScore < ThresholdOf("get_ticker"))
        => (rout.status = "none" /\ rout.ident = 0)

\* C6: when the best score is at or above the threshold and a second
\* candidate scores within 10 points of the best, the resolution is reported
\* as ambiguous and no candidate is accepted (95 and 94 with threshold 70).
\* The other half of the claim, that a best candidate more than 10 points
\* clear of the rest is accepted, is the acceptance of C4.
C6_AmbiguousWithinMargin ==
    \A fn \in {"get_ticker", "get_ticker_or_cik"} :
        (Resolved(fn) /\ TopScore >= ThresholdOf(fn)) =>
            LET close == {n \in CandidateNames : score[n] >= TopScore - 10}
            IN  Cardinality(close) > 1 =>
                    (rout.status = "ambiguous" /\ rout.ident = 0)

\* C7: the rows process_and_match_companies and layoffs return all carry one
\* candidate name, a best-scoring one.
C7_RowsOfOneCandidate ==
    \A fn \in {"process_and_match_companies", "layoffs"} :
        (Resolved(fn) /\ rout.status = "value") =>
            \A i \in 1..Len(rout.rowsOut) :
                /\ rows[rout.rowsOut[i]] = rows[rout.rowsOut[1]]
                /\ score[rows[rout.rowsOut[i]]] = TopScore

\* C21: every posting get_filtered_company_jobs returns has a company field
\* equal to the best fuzzy match of the query among the postings' companies;
\* no posting of another company is included.
C21_JobsOfBestMatchOnly ==
    (Resolved("get_filtered_company_jobs") /\ rout.status = "value") =>
        /\ score[rout.matched[1]] = TopScore
        /\ \A i \in 1..Len(rout.rowsOut) : rows[rout.rowsOut[i]] = rout.matched[1]

(***************************************************************************)
(* Claims about the registry cache (SpecCache)                              *)
(***************************************************************************)
\* C8: load_cache returns the stored payload exactly when an entry exists
\* and is less than 7 days old at the time of the call; with no file or an
\* entry 7 days old or older it returns None.  (It raises only on a file that
\* holds no complete entry.)
C8_LoadCacheHitIffFresh ==
    \A c \in Callers :
        LET L == cloc[c]
            age == L.at - (L.seenTs[1] * 24 + L.seenTs[2])
        IN  /\ (cpc[c] = "loaded" /\ L.seen = "entry" /\ age < 7 * 24)
                => L.cached = L.seenCompanies
            /\ (cpc[c] = "loaded" /\ L.seen = "entry" /\ age >= 7 * 24)
                => L.cached = None
            /\ (cpc[c] = "loaded" /\ L.seen = "absent") => L.cached = None
            /\ L.seen \in {"entry", "absent"} => cpc[c] = "loaded"

\* C8 witness: load_cache has just reported a miss on an entry that is
\* exactly 7 days old
C8_Witness_MissAtSevenDays ==
    \E c \in Callers :
        /\ cpc[c] = "loaded"
        /\ cloc[c].seen = "entry"
        /\ cloc[c].at - (cloc[c].seenTs[1] * 24 + cloc[c].seenTs[2]) = 7 * 24
        /\ cloc[c].seenCompanies \in {"A", "B"}
        /\ cloc[c].cached = None

\* C9: a cache file that holds no complete entry is a miss: load_cache
\* returns None (the caller goes on to refetch) and no exception leaves it.
C9_CorruptCacheIsMiss ==
    \A c \in Callers :
        cloc[c].seen = "partial" => (cpc[c] = "loaded" /\ cloc[c].cached = None)

\* C10: the cache file is never seen half-written: not by a load_cache that
\* runs while another query saves, and not once no save is under way (after
\* a crash in the middle of save_cache).
C10_CacheWriteAtomic ==
    /\ \A c \in Callers : cloc[c].seen # "partial"
    /\ (\A c \in Callers : cpc[c] # "save_write") => SeenKind(file) # "partial"

\* C11: once a registry has been fetched and stored, a call of
\* get_company_data that finds the stored entry less than 7 days old returns
\* it and sends no request to the registry, whatever the stored payload.
C11_FetchedOncePerWindow ==
    [][\A c \in Callers :
          (/\ cpc[c] = "loaded"
           /\ cloc[c].seen = "entry"
           /\ cloc[c].at - fromisoformat(cloc[c].seenTs) < CACHE_DURATION)
          => cpc'[c] # "fetch"]_vars

(***************************************************************************)
(* Claims about the calls of external sources (SpecRetry)                   *)
(***************************************************************************)
\* every attempt so far raised
AllRaised == \A i \in 1..Len(hist) : hist[i].kind = "raise"

\* a failure that is worth another attempt: network error, timeout, 5xx
TransientFailure(o) ==
    \/ o.kind = "raise" /\ o.v \in TransientErrors
    \/ o.kind = "response" /\ o.status >= 500

\* C12: under the retry wrapper of get_company_jobs the job search is
\* attempted at most 3 times per call; after two failed attempts a third one
\* is made, and when it succeeds its result is what get_company_jobs returns.
C12_RetryReturnsSuccess ==
    site = "get_company_jobs" =>
        /\ Len(hist) <= 3
        /\ attempt_number <= 3
        /\ (Len(hist) = 2 /\ AllRaised) => rpc \in {"sleep", "attempt"}
        /\ (/\ rpc = "returned"
            /\ Len(hist) = 3
            /\ hist[1].kind = "raise" /\ hist[2].kind = "raise"
            /\ hist[3].kind = "return") => rret = hist[3].v

\* C12 witness: two failures, then a successful search whose result was
\* returned
C12_Witness_FailFailSuccess ==
    /\ site = "get_company_jobs"
    /\ rpc = "returned"
    /\ Len(hist) = 3
    /\ hist[1].kind = "raise" /\ hist[2].kind = "raise"
    /\ hist[3] = Returned("jobs")
    /\ rret = "jobs"

\* C13: when every attempt of the retried job search fails, the wrapper ends
\* after exactly 3 attempts by raising, into get_company_jobs, a RetryError
\* that carries the outcome of the last attempt.
C13_ExhaustedRaisesWithLastError ==
    (/\ site = "get_company_jobs"
     /\ Len(hist) >= 1 /\ AllRaised
     /\ rpc \in {"except", "returned"}) =>
        /\ Len(hist) = 3
        /\ rexc.type = "RetryError"
        /\ rexc.last_attempt = hist[3]

\* C13 witness: three failures with different errors; the RetryError that
\* reached the except clause of get_company_jobs carries the third
C13_Witness_ThreeFailures ==
    /\ site = "get_company_jobs"
    /\ rpc = "except"
    /\ hist = <<Raised("Timeout"), Raised("ValueError"), Raised("ConnectionError")>>
    /\ rexc = RetryError(Raised("ConnectionError"))

\* C14: a non-transient failure of the wrapped job search is attempted
\* exactly once and propagates at once, without a retry.
C14_NonTransientNotRetried ==
    (/\ site = "get_company_jobs"
     /\ Len(hist) >= 1
     /\ hist[1].kind = "raise" /\ hist[1].v \in NonTransientErrors) =>
        /\ Len(hist) = 1
        /\ rpc \in {"except", "returned"}
        /\ rexc.type = hist[1].v

\* C15: at the call sites of a query (the job search of fetch_thread, the
\* registry request of get_company_data, the litigation request of
\* search_cases) a source is given up after a transient failure only when 3
\* attempts have been made.
C15_EverySourceCallRetried ==
    \A s \in {"fetch_thread", "get_company_data", "search_cases"} :
        (/\ site = s
         /\ rpc \in {"returned", "raised"}
         /\ Len(hist) >= 1
         /\ TransientFailure(hist[Len(hist)])) => Len(hist) = 3

\* C16: the first wait between attempts is 4, each following wait is double
\* the one before it, capped at 10.
C16_ExponentialBackoff ==
    /\ Len(slept) >= 1 => slept[1] = 4
    /\ \A i \in 2..Len(slept) : slept[i] = Min(2 * slept[i - 1], 10)
    /\ \A i \in 1..Len(slept) : slept[i] <= 10

(***************************************************************************)
(* Claims about name normalization (SpecNorm)                               *)
(***************************************************************************)
\* C17: the variants returned by _normalize_company_name are non-empty and
\* contain the raw input exactly as it was passed in, leading and trailing
\* whitespace included.
C17_VariantsContainRawInput ==
    npc # "idle" => (name_variants # {} /\ company_name \in name_variants)

\* C18: suffix stripping is idempotent: the suffix-stripping step applied to
\* the base form it produced gives that base form again.
C18_SuffixStrippingIdempotent ==
    npc # "idle" => BaseName(base_name) = base_name

\* the suffixes of the list that the name ends with when case is ignored
MatchingSuffixes(name) ==
    {k \in 1..Len(suffixes) : endswith(lower(name), <<" ">> \o lower(suffixes[k]))}

\* C19: a name that ends in a space followed by any case variant of a known
\* suffix has that suffix removed from the base form, the longest one when
\* several match.
C19_SuffixCaseInsensitiveLongest ==
    npc # "idle" =>
        LET name == strip(company_name)
            M == MatchingSuffixes(name)
        IN  M # {} =>
              LET k == CHOOSE k \in M : \A j \in M : Len(suffixes[j]) <= Len(suffixes[k])
              IN  base_name = strip(SubSeq(name, 1, Len(name) - Len(suffixes[k])))

\* C20: _normalize_company_name fails exactly when the name is empty or
\* whitespace-only, and then no variants are produced and no search is sent.
C20_FailsExactlyOnEmptyInput ==
    npc # "idle" =>
        /\ nraised <=> (strip(company_name) = <<>>)
        /\ strip(company_name) = <<>> => (name_variants = {} /\ ~searched)

(***************************************************************************)
(* Claims about the query (SpecApp)                                         *)
(***************************************************************************)
Sources == {"market", "hist", "h1b", "layoff", "jobs", "dispute", "sec"}

\* the fetch thread's variable that holds a source's result, the tab that
\* shows it
SourceVar(L, src) ==
    CASE src = "market" -> L.current_data
      [] src = "hist" -> L.hist_data
      [] src = "h1b" -> L.h1b_df
      [] src = "layoff" -> L.layoff_df
      [] src = "jobs" -> L.jobs_df
      [] src = "dispute" -> L.dispute_report
      [] src = "sec" -> L.summary
TabOf(src) ==
    CASE src = "market" -> "overview"
      [] src = "hist" -> "daily"
      [] src = "h1b" -> "h1b"
      [] src = "layoff" -> "layoff"
      [] src = "jobs" -> "jobs"
      [] src = "dispute" -> "dispute"
      [] src = "sec" -> "sec"

\* the fetch thread of query q has ended and none of its callbacks is pending
Settled(q) ==
    /\ tpc[q] \in {"done", "died"}
    /\ \A i \in 1..Len(afterq) : afterq[i].q # q

\* C22: a source whose fetch never responds is abandoned after a timeout
\* without cancelling the others: the query still completes (its thread ends,
\* the loading state is cleared) and the overview shows its results.
C22_SlowSourceAbandoned ==
    \A q \in Queries :
        (tpc[q] = "blocked") ~>
            (/\ Settled(q)
             /\ ~loading
             /\ <<"result", q>> \in tabs["overview"])

\* C23: a search_cases response with a status other than 200 is not counted
\* as zero cases: the case type it was for has no total_cases of 0 in the
\* case summary.
C23_FailedSearchNotZeroCases ==
    \A i \in 1..analysed :
        answered[i] # 200 => case_summary[i].total_cases # 0

\* C24: get_info generates the report exactly once and calls
\* summarize_dispute with that report string.
C24_ReportPassedToSummarize ==
    dpc = "summarized" =>
        /\ reports_generated = 1
        /\ summarize_arg = report

\* the priority-1 case types analysed so far with more than RECENT_LIMIT
\* recent cases
Flagged ==
    {i \in 1..analysed : /\ CASE_TYPES[i].priority = 1
                         /\ case_summary[i].recent_cases > RECENT_LIMIT}

RiskConsistent ==
    /\ results.overall_risk \in {"LOW", "HIGH"}
    /\ (results.overall_risk = "HIGH") <=> (results.red_flags # <<>>)
    /\ (results.red_flags # <<>>) <=> (Flagged # {})
    /\ \A i \in 1..analysed :
         case_summary[i].recent_cases <= case_summary[i].total_cases

\* C30: after every step of analyze_company, overall_risk is HIGH exactly
\* when red_flags is non-empty, which is exactly when some priority-1 case
\* type has more than 2 recent cases; a HIGH overall_risk is never set back
\* by a later case type; recent_cases <= total_cases for every case type.
C30_HighIffRedFlag ==
    [][/\ RiskConsistent'
       /\ results.overall_risk = "HIGH" => results'.overall_risk = "HIGH"]_vars

\* the first case type raised the risk with three recent cases, a later
\* priority-1 type with fewer recent cases and a priority-2 type with three
\* were analysed after it, and the report was built
C30_Witness_HighKeptByLaterTypes ==
    /\ dpc = "reported"
    /\ results.overall_risk = "HIGH"
    /\ results.red_flags = <<CASE_TYPES[1].name>>
    /\ case_summary[1].recent_cases = 3
    /\ case_summary[3].recent_cases = 3
    /\ case_summary[4].total_cases > 0
    /\ case_summary[4].recent_cases <= RECENT_LIMIT
    /\ answered[2] # 200

\* C25: the fetch thread never touches a widget itself: no method that
\* configures or destroys widgets has run on a fetch thread.
C25_ThreadNeverTouchesWidgets ==
    off_main = {}

\* the fetch thread of query q is running
InFlight(q) == tpc[q] \notin {"none", "done", "died"}

\* C26: the tabs are cleared together: when display_error has run for a
\* query, no tab shows a result of another, earlier query.
C26_NoStaleTabAfterError ==
    [][\A q \in Queries :
          (/\ afterq # <<>>
           /\ Head(afterq) = [fn |-> "display_error", q |-> q]
           /\ afterq' = Tail(afterq)) =>
              \A t \in Tabs : \A item \in tabs'[t] : item[1] # "result"]_vars

\* C27: at most one query is in flight, whether it was started with the
\* search button or with the Return key.
C27_AtMostOneQueryInFlight ==
    Cardinality({q \in Queries : InFlight(q)}) <= 1

\* C28: current_symbol and current_hist_data are both unset or both stored
\* by the same query, and export_data never writes the data of one query
\* under the symbol of another.
C28_SymbolAndDataOfSameQuery ==
    /\ current_symbol = current_hist_data
    /\ exported[1] = exported[2]

\* a step in which fetch_all_data returns without starting a fetch thread
\* (empty name, no ticker, invalid symbol)
FailsAtOnce ==
    /\ handled' # handled
    /\ handled' \in {"empty_name", "raised", "invalid_symbol"}

\* a step in which the fetch thread of q returns on an error of
\* fetch_stock_data or fetch_historical_data
ThreadFails(q) ==
    /\ tpc[q] \in {"fetch_stock_data", "fetch_historical_data"}
    /\ tpc'[q] = "done"

\* a step in which the main loop runs display_error, the last callback of a
\* query whose thread returned on an error
ErrorShown(q) ==
    /\ afterq # <<>>
    /\ Head(afterq) = [fn |-> "display_error", q |-> q]
    /\ afterq' = Tail(afterq)

\* C29: a failing query leaves current_hist_data and current_symbol as they
\* were, and when it is over the export button is enabled exactly when
\* current_hist_data was already set.
C29_FailedQueryKeepsExportState ==
    [][/\ (FailsAtOnce \/ \E q \in Queries : ThreadFails(q) \/ ErrorShown(q)) =>
             UNCHANGED <<current_hist_data, current_symbol>>
       /\ (FailsAtOnce \/ \E q \in Queries : ErrorShown(q)) =>
             (export_enabled' <=> current_hist_data # 0)]_vars

\* C1: when one source of a query fails, every other source is still
\* resolved and its result is displayed.
C1_FailureIsolation ==
    \A q \in Queries :
        (q = started /\ Settled(q) /\ Cardinality(tloc[q].failed) = 1) =>
            \A src \in Sources \ tloc[q].failed :
                /\ SourceVar(tloc[q], src) \in {"data", "none"}
                /\ \E item \in tabs[TabOf(src)] :
                     item[2] = q /\ item[1] \in {"result", "none"}

\* C2: once the fetch thread of a query has ended and the main loop has run
\* its callbacks, the loading state is cleared (label empty, search button
\* enabled) and the overview shows results or an error message.
C2_QueryFinishes ==
    (started > 0 /\ \A q \in 1..started : Settled(q)) =>
        /\ ~loading
        /\ search_enabled
        /\ tabs["overview"] # {}

====
